---- MODULE Spec2Model ----
(***************************************************************************)
(* A model of the remote-oss extension: the authority codec                *)
(* (encode_remote_host / decode_remote_host), the host registry built by   *)
(* RemotesDataProvider.readTree, and the resolver                          *)
(* (RemotesDataProvider.resolveAuthority) driven by the registered         *)
(* remote authority resolver of extension.ts.                              *)
(*                                                                         *)
(* Strings are sequences of UTF-16 code units (integers); JavaScript       *)
(* values are tagged records, so that typeof, truthiness and === can be    *)
(* modelled as the code evaluates them.                                    *)
(*                                                                         *)
(* The characters written as numbers:                                      *)
(*   34 "   43 +   44 ,   45 -   46 .   47 /   48..57 0..9   58 :   61 =   *)
(*   65..90 A..Z   91 [   92 \   93 ]   95 _   97..122 a..z   123 {   125 } *)
(*   8 \b   9 \t   10 \n   12 \f   13 \r   32 space                        *)
(***************************************************************************)
EXTENDS Integers, Sequences, FiniteSets, TLC

VARIABLES
    codec,      \* the codec on its own: [pc, info, from, token, out, entry, text]
    config,     \* the value of the setting remote.OSS.hosts
    remotesTree,\* RemotesDataProvider.remotesTree: null, or the KindItems
    noHosts,    \* the context key remote-oss:noHosts (undefined until set)
    fired,      \* the number of onDidChangeTreeData events fired
    changes,    \* the number of configuration changes so far
    rebuilds,   \* the readTree calls in flight, in the order they started
    res         \* the resolution requests: res[r] is the r-th resolve() call

vars == <<codec, config, remotesTree, noHosts, fired, changes, rebuilds, res>>

(***************************************************************************)
(* Characters and strings                                                  *)
(***************************************************************************)

RECURSIVE Flatten(_)
Flatten(ss) == IF ss = <<>> THEN <<>> ELSE Head(ss) \o Flatten(Tail(ss))

(***************************************************************************)
(* JavaScript values                                                       *)
(***************************************************************************)

Undefined == [t |-> "undefined"]
Null      == [t |-> "null"]
Bool(b)   == [t |-> "boolean", v |-> b]
Num(n)    == [t |-> "number", v |-> n]
JStr(s)   == [t |-> "string", v |-> s]
Obj(ps)   == [t |-> "object", v |-> ps]     \* ps: sequence of <<key, value>>
Arr(es)   == [t |-> "array", v |-> es]

\* typeof x
TypeOf(x) == IF x.t \in {"null", "array"} THEN "object" ELSE x.t

\* ToBoolean(x): what `if (x)` and `!x` test.
Truthy(x) ==
    CASE x.t = "undefined" -> FALSE
      [] x.t = "null"      -> FALSE
      [] x.t = "boolean"   -> x.v
      [] x.t = "number"    -> "v" \notin DOMAIN x \/ x.v # 0
      [] x.t = "string"    -> Len(x.v) > 0
      [] OTHER             -> TRUE

\* x === y for the primitives the program compares (strings, undefined).
StrictEquals(x, y) ==
    /\ x.t = y.t
    /\ x.t \in {"boolean", "number", "string"} => x = y

\* obj[key], undefined when the property is missing or obj is a primitive.
GetProp(obj, key) ==
    IF obj.t = "object" /\ \E i \in 1..Len(obj.v) : obj.v[i][1] = key
    THEN obj.v[CHOOSE i \in 1..Len(obj.v) : obj.v[i][1] = key][2]
    ELSE Undefined

\* The property list after obj[key] = val: a known key keeps its position.
SetProp(ps, key, val) ==
    IF \E i \in 1..Len(ps) : ps[i][1] = key
    THEN [i \in 1..Len(ps) |-> IF ps[i][1] = key THEN <<key, val>> ELSE ps[i]]
    ELSE Append(ps, <<key, val>>)

kType == <<116, 121, 112, 101>>    \* type
kHost == <<104, 111, 115, 116>>    \* host
kPort == <<112, 111, 114, 116>>    \* port
sTransient  == <<116, 114, 97, 110, 115, 105, 101, 110, 116>>    \* transient
sConfigured == <<99, 111, 110, 102, 105, 103, 117, 114, 101, 100>>    \* configured

\* The object literal { type, host, port } of interface HostInfo.
HostInfo(type, host, port) ==
    Obj(<< <<kType, type>>, <<kHost, host>>, <<kPort, port>> >>)

(***************************************************************************)
(* JSON.stringify                                                          *)
(***************************************************************************)

RECURSIVE DecimalDigits(_)
DecimalDigits(n) ==
    IF n < 10 THEN <<48 + n>>
    ELSE Append(DecimalDigits(n \div 10), 48 + (n % 10))

NumberToString(n) ==
    IF n < 0 THEN <<45>> \o DecimalDigits(-n) ELSE DecimalDigits(n)

HexDigit(d) == IF d < 10 THEN 48 + d ELSE 97 + (d - 10)

\* QuoteJSONString, one code unit (units below 0xD800: no surrogates).
QuoteJSONChar_Unescaped(c) == <<c>>
QuoteJSONChar(c) ==
    IF c = 34 THEN <<92, 34>>    \* \"
    ELSE IF c = 92 THEN <<92, 92>>    \* \\
    ELSE IF c = 8 THEN <<92, 98>>    \* \b
    ELSE IF c = 12 THEN <<92, 102>>    \* \f
    ELSE IF c = 10 THEN <<92, 110>>    \* \n
    ELSE IF c = 13 THEN <<92, 114>>    \* \r
    ELSE IF c = 9 THEN <<92, 116>>    \* \t
    ELSE IF c < 32 THEN <<92, 117, 48, 48,
                          HexDigit(c \div 16), HexDigit(c % 16)>>
    ELSE <<c>>

QuoteJSONString(s) ==
    <<34>> \o Flatten([i \in 1..Len(s) |-> QuoteJSONChar(s[i])]) \o <<34>>

RECURSIVE JSONStringify(_)
JSONStringify(x) ==
    CASE x.t = "string"  -> QuoteJSONString(x.v)
      [] x.t = "number"  -> NumberToString(x.v)
      [] x.t = "boolean" -> IF x.v THEN <<116, 114, 117, 101>>    \* true
                                   ELSE <<102, 97, 108, 115, 101>>    \* false
      [] x.t = "null"    -> <<110, 117, 108, 108>>    \* null
      [] x.t = "object"  ->
            \* properties whose value is undefined are left out
            LET kept == SelectSeq(x.v, LAMBDA p : p[2].t # "undefined")
                member(i) == (IF i > 1 THEN <<44>> ELSE <<>>)
                             \o QuoteJSONString(kept[i][1]) \o <<58>>
                             \o JSONStringify(kept[i][2])
            IN <<123>> \o Flatten([i \in 1..Len(kept) |-> member(i)])
                           \o <<125>>

(***************************************************************************)
(* JSON.parse                                                              *)
(***************************************************************************)

PFail     == [ok |-> FALSE, val |-> Undefined, pos |-> 0]
POk(v, p) == [ok |-> TRUE, val |-> v, pos |-> p]

IsWs(c)    == c \in {32, 9, 10, 13}
IsDigit(c) == c >= 48 /\ c <= 48 + 9
HexVal(c)  ==
    IF IsDigit(c) THEN c - 48
    ELSE IF c >= 97 /\ c <= 102 THEN c - 97 + 10
    ELSE IF c >= 65 /\ c <= 70 THEN c - 65 + 10
    ELSE -1

RECURSIVE SkipWs(_, _)
SkipWs(s, i) == IF i <= Len(s) /\ IsWs(s[i]) THEN SkipWs(s, i + 1) ELSE i

RECURSIVE DigitsEnd(_, _)
DigitsEnd(s, i) == IF i <= Len(s) /\ IsDigit(s[i]) THEN DigitsEnd(s, i + 1) ELSE i

\* The value of the digits s[i .. j-1].
RECURSIVE DigitsValue(_, _, _)
DigitsValue(s, i, j) ==
    IF j <= i THEN 0 ELSE 10 * DigitsValue(s, i, j - 1) + (s[j - 1] - 48)

HasAt(s, i, w) == i + Len(w) - 1 <= Len(s) /\ SubSeq(s, i, i + Len(w) - 1) = w

\* The characters of a string literal, from index i (after the opening quote).
RECURSIVE ParseChars(_, _, _)
ParseChars(s, i, acc) ==
    IF i > Len(s) THEN PFail
    ELSE LET c == s[i] IN
        IF c = 34 THEN POk(JStr(acc), i + 1)
        ELSE IF c < 32 THEN PFail
        ELSE IF c # 92 THEN ParseChars(s, i + 1, Append(acc, c))
        ELSE IF i + 1 > Len(s) THEN PFail
        ELSE LET e == s[i + 1] IN
            IF e \in {34, 92, 47}
                THEN ParseChars(s, i + 2, Append(acc, e))
            ELSE IF e = 98 THEN ParseChars(s, i + 2, Append(acc, 8))
            ELSE IF e = 102 THEN ParseChars(s, i + 2, Append(acc, 12))
            ELSE IF e = 110 THEN ParseChars(s, i + 2, Append(acc, 10))
            ELSE IF e = 114 THEN ParseChars(s, i + 2, Append(acc, 13))
            ELSE IF e = 116 THEN ParseChars(s, i + 2, Append(acc, 9))
            ELSE IF e = 117 /\ i + 5 <= Len(s)
                    /\ \A k \in 2..5 : HexVal(s[i + k]) >= 0
                THEN ParseChars(s, i + 6,
                        Append(acc, 4096 * HexVal(s[i + 2]) + 256 * HexVal(s[i + 3])
                                    + 16 * HexVal(s[i + 4]) + HexVal(s[i + 5])))
            ELSE PFail

\* A number literal at index i. A literal with a fraction or an exponent is
\* kept as its text.
ParseNumber(s, i) ==
    LET neg == s[i] = 45
        a   == IF neg THEN i + 1 ELSE i
    IN  IF a > Len(s) \/ ~IsDigit(s[a]) THEN PFail
        ELSE
        LET b       == IF s[a] = 48 THEN a + 1 ELSE DigitsEnd(s, a)
            hasFrac == b <= Len(s) /\ s[b] = 46
            c       == IF hasFrac THEN DigitsEnd(s, b + 1) ELSE b
            hasExp  == c <= Len(s) /\ s[c] \in {101, 69}
            d0      == IF hasExp /\ c + 1 <= Len(s) /\ s[c + 1] \in {43, 45}
                       THEN c + 2 ELSE c + 1
            d       == IF hasExp THEN DigitsEnd(s, d0) ELSE c
        IN  IF (hasFrac /\ c = b + 1) \/ (hasExp /\ d = d0) THEN PFail
            ELSE IF hasFrac \/ hasExp
                THEN POk([t |-> "number", lit |-> SubSeq(s, i, d - 1)], d)
            ELSE POk(Num((IF neg THEN -1 ELSE 1) * DigitsValue(s, a, b)), d)

RECURSIVE ParseValue(_, _)
RECURSIVE ParseMembers(_, _, _)
RECURSIVE ParseElements(_, _, _)

\* A value, after optional white space, from index i0.
ParseValue(s, i0) ==
    LET i == SkipWs(s, i0) IN
    IF i > Len(s) THEN PFail
    ELSE LET c == s[i] IN
        IF c = 123 THEN
            LET j == SkipWs(s, i + 1) IN
            IF j <= Len(s) /\ s[j] = 125 THEN POk(Obj(<<>>), j + 1)
            ELSE ParseMembers(s, j, <<>>)
        ELSE IF c = 91 THEN
            LET j == SkipWs(s, i + 1) IN
            IF j <= Len(s) /\ s[j] = 93 THEN POk(Arr(<<>>), j + 1)
            ELSE ParseElements(s, j, <<>>)
        ELSE IF c = 34 THEN ParseChars(s, i + 1, <<>>)
        ELSE IF c = 45 \/ IsDigit(c) THEN ParseNumber(s, i)
        ELSE IF HasAt(s, i, <<116, 114, 117, 101>>) THEN POk(Bool(TRUE), i + 4)    \* true
        ELSE IF HasAt(s, i, <<102, 97, 108, 115, 101>>) THEN POk(Bool(FALSE), i + 5)    \* false
        ELSE IF HasAt(s, i, <<110, 117, 108, 108>>) THEN POk(Null, i + 4)    \* null
        ELSE PFail

\* The members of an object from the key at index i; acc the properties so far.
\* A repeated key keeps the later value.
ParseMembers(s, i, acc) ==
    IF i > Len(s) \/ s[i] # 34 THEN PFail
    ELSE LET k == ParseChars(s, i + 1, <<>>) IN
        IF ~k.ok THEN PFail
        ELSE LET j == SkipWs(s, k.pos) IN
            IF j > Len(s) \/ s[j] # 58 THEN PFail
            ELSE LET v == ParseValue(s, j + 1) IN
                IF ~v.ok THEN PFail
                ELSE LET n    == SkipWs(s, v.pos)
                         acc2 == SetProp(acc, k.val.v, v.val)
                     IN  IF n > Len(s) THEN PFail
                         ELSE IF s[n] = 125 THEN POk(Obj(acc2), n + 1)
                         ELSE IF s[n] = 44
                             THEN ParseMembers(s, SkipWs(s, n + 1), acc2)
                         ELSE PFail

\* The elements of an array from index i; acc the elements so far.
ParseElements(s, i, acc) ==
    LET v == ParseValue(s, i) IN
    IF ~v.ok THEN PFail
    ELSE LET n == SkipWs(s, v.pos) IN
        IF n > Len(s) THEN PFail
        ELSE IF s[n] = 93 THEN POk(Arr(Append(acc, v.val)), n + 1)
        ELSE IF s[n] = 44 THEN ParseElements(s, n + 1, Append(acc, v.val))
        ELSE PFail

\* JSON.parse(text): the value, or a SyntaxError.
JSONParse(s) ==
    LET r == ParseValue(s, 1) IN
    IF r.ok /\ SkipWs(s, r.pos) > Len(s)
    THEN [throws |-> FALSE, value |-> r.val]
    ELSE [throws |-> TRUE, value |-> Undefined]

(***************************************************************************)
(* Buffer.from(string) / Buffer.toString(): UTF-8                          *)
(***************************************************************************)

\* The UTF-8 bytes of one code unit below 0xD800.
UTF8EncodeChar(c) ==
    IF c < 128 THEN <<c>>
    ELSE IF c < 2048 THEN <<192 + (c \div 64), 128 + (c % 64)>>
    ELSE <<224 + (c \div 4096), 128 + ((c \div 64) % 64), 128 + (c % 64)>>

UTF8Encode(s) == Flatten([i \in 1..Len(s) |-> UTF8EncodeChar(s[i])])

IsCont(b, i) == i <= Len(b) /\ b[i] >= 128 /\ b[i] < 192

\* The string of a byte sequence: well-formed sequences of one to three bytes
\* decode to their code point, any other byte to U+FFFD.
RECURSIVE UTF8DecodeFrom(_, _)
UTF8DecodeFrom(b, i) ==
    IF i > Len(b) THEN <<>>
    ELSE LET x == b[i] IN
        IF x < 128 THEN <<x>> \o UTF8DecodeFrom(b, i + 1)
        ELSE IF x >= 194 /\ x < 224 /\ IsCont(b, i + 1)
            THEN <<(x - 192) * 64 + (b[i + 1] - 128)>> \o UTF8DecodeFrom(b, i + 2)
        ELSE IF x >= 224 /\ x < 240 /\ IsCont(b, i + 1) /\ IsCont(b, i + 2)
                /\ (x = 224 => b[i + 1] >= 160) /\ (x = 237 => b[i + 1] < 160)
            THEN <<(x - 224) * 4096 + (b[i + 1] - 128) * 64 + (b[i + 2] - 128)>>
                 \o UTF8DecodeFrom(b, i + 3)
        ELSE <<65533>> \o UTF8DecodeFrom(b, i + 1)

UTF8Decode(b) == UTF8DecodeFrom(b, 1)

(***************************************************************************)
(* Buffer.toString("base64") / Buffer.from(string, "base64")               *)
(***************************************************************************)

\* The character of a 6-bit value.
B64Char(v) ==
    IF v < 26 THEN 65 + v
    ELSE IF v < 52 THEN 97 + (v - 26)
    ELSE IF v < 62 THEN 48 + (v - 52)
    ELSE IF v = 62 THEN 43
    ELSE 47

\* The 6-bit value of a character, 64 for a character outside the alphabet
\* (the decoder also takes the URL-safe - and _).
Unbase64(c) ==
    IF c >= 65 /\ c <= 90 THEN c - 65
    ELSE IF c >= 97 /\ c <= 122 THEN c - 97 + 26
    ELSE IF IsDigit(c) THEN c - 48 + 52
    ELSE IF c = 43 \/ c = 45 THEN 62
    ELSE IF c = 47 \/ c = 95 THEN 63
    ELSE 64

RECURSIVE Base64EncodeFrom(_, _)
Base64EncodeFrom(b, i) ==
    LET left == Len(b) - i + 1 IN
    IF left <= 0 THEN <<>>
    ELSE IF left = 1 THEN
        <<B64Char(b[i] \div 4), B64Char((b[i] % 4) * 16), 61, 61>>
    ELSE IF left = 2 THEN
        <<B64Char(b[i] \div 4), B64Char((b[i] % 4) * 16 + (b[i + 1] \div 16)),
          B64Char((b[i + 1] % 16) * 4), 61>>
    ELSE
        <<B64Char(b[i] \div 4), B64Char((b[i] % 4) * 16 + (b[i + 1] \div 16)),
          B64Char((b[i + 1] % 16) * 4 + (b[i + 2] \div 64)), B64Char(b[i + 2] % 64)>>
        \o Base64EncodeFrom(b, i + 3)

Base64Encode(b) == Base64EncodeFrom(b, 1)

\* The 6-bit values the decoder reads: it stops at the first =, and skips
\* every other character outside the alphabet.
RECURSIVE Base64Sextets(_, _)
Base64Sextets(s, i) ==
    IF i > Len(s) \/ s[i] = 61 THEN <<>>
    ELSE IF Unbase64(s[i]) = 64 THEN Base64Sextets(s, i + 1)
    ELSE <<Unbase64(s[i])>> \o Base64Sextets(s, i + 1)

RECURSIVE Base64Bytes(_, _)
Base64Bytes(v, i) ==
    LET left == Len(v) - i + 1 IN
    IF left <= 1 THEN <<>>
    ELSE IF left = 2 THEN <<v[i] * 4 + (v[i + 1] \div 16)>>
    ELSE IF left = 3 THEN
        <<v[i] * 4 + (v[i + 1] \div 16), (v[i + 1] % 16) * 16 + (v[i + 2] \div 4)>>
    ELSE
        <<v[i] * 4 + (v[i + 1] \div 16), (v[i + 1] % 16) * 16 + (v[i + 2] \div 4),
          (v[i + 2] % 4) * 64 + v[i + 3]>>
        \o Base64Bytes(v, i + 4)

Base64Decode(s) == Base64Bytes(Base64Sextets(s, 1), 1)

(***************************************************************************)
(* The authority codec                                                     *)
(***************************************************************************)

\* The namespace marker "remote-oss+".
Marker == <<114, 101, 109, 111, 116, 101, 45, 111, 115, 115, 43>>    \* remote-oss+

\* export function encode_remote_host(info: HostInfo): string
encode_remote_host(info) ==
    LET json   == JSONStringify(info)
        base64 == Base64Encode(UTF8Encode(json))
    IN  Marker \o base64

\* A line terminator, which the . of a regular expression does not match.
IsLineTerminator(c) == c \in {10, 13, 8232, 8233}

\* The end (exclusive) of the longest run of non-terminators from index i.
RECURSIVE DotStarEnd(_, _)
DotStarEnd(s, i) ==
    IF i <= Len(s) /\ ~IsLineTerminator(s[i]) THEN DotStarEnd(s, i + 1) ELSE i

\* A variant of the regular expression with the + left unescaped,
\* /remote-oss+(.*)/: "remote-os", then one or more s, then the group.
RECURSIVE RegExpMatchUnescapedFrom(_, _)
RegExpMatchUnescapedFrom(s, i) ==
    LET w == SubSeq(Marker, 1, Len(Marker) - 1) IN
    IF i + Len(w) - 1 > Len(s) THEN [matched |-> FALSE, group |-> <<>>]
    ELSE IF HasAt(s, i, w)
        THEN LET RECURSIVE run(_)
                 run(j) == IF j <= Len(s) /\ s[j] = 115 THEN run(j + 1) ELSE j
                 g == run(i + Len(w))
             IN  [matched |-> TRUE, group |-> SubSeq(s, g, DotStarEnd(s, g) - 1)]
    ELSE RegExpMatchUnescapedFrom(s, i + 1)

\* encoded.match(/remote-oss\+(.*)/): the leftmost occurrence of the marker
\* from index i, and its group, the rest of the line.
RECURSIVE RegExpMatchFrom(_, _)
RegExpMatchFrom(s, i) ==
    IF i + Len(Marker) - 1 > Len(s) THEN [matched |-> FALSE, group |-> <<>>]
    ELSE IF HasAt(s, i, Marker)
        THEN [matched |-> TRUE,
              group |-> SubSeq(s, i + Len(Marker), DotStarEnd(s, i + Len(Marker)) - 1)]
    ELSE RegExpMatchFrom(s, i + 1)

RegExpMatch_Unescaped(s) == RegExpMatchUnescapedFrom(s, 1)
RegExpMatch(s) == RegExpMatchFrom(s, 1)

\* A variant that swallows the parse error and answers undefined.
decode_remote_host_Lenient(encoded) ==
    LET match == RegExpMatch(encoded) IN
    IF match.matched
    THEN LET r == JSONParse(UTF8Decode(Base64Decode(match.group)))
         IN  [throws |-> FALSE, value |-> IF r.throws THEN Undefined ELSE r.value]
    ELSE [throws |-> FALSE, value |-> Undefined]

\* export function decode_remote_host(encoded: string): HostInfo | undefined
\* The outcome: the value returned, or the SyntaxError of JSON.parse thrown.
decode_remote_host(encoded) ==
    LET match == RegExpMatch(encoded) IN
    IF match.matched
    THEN LET base64 == match.group
             json   == UTF8Decode(Base64Decode(base64))
         IN  JSONParse(json)
    ELSE [throws |-> FALSE, value |-> Undefined]

(***************************************************************************)
(* The host registry: RemotesDataProvider.readTree                         *)
(***************************************************************************)

\* HostKind.Manual of ./remotesConfig
HostKind_Manual == "manual"

\* new FolderItem(label, host, path)
FolderItem(label, host, path) == [label |-> label, host |-> host, path |-> path]

\* The folders of a host item after the loop over host.folders: a string is
\* a path that is its own label, an object gives name and path.
HostFolders(hostName, folders) ==
    IF ~Truthy(folders) \/ TypeOf(hostName) # "string" THEN <<>>
    ELSE [i \in 1..Len(folders.v) |->
            IF TypeOf(folders.v[i]) = "string"
            THEN FolderItem(folders.v[i], hostName, folders.v[i])
            ELSE FolderItem(folders.v[i].name, hostName, folders.v[i].path)]

\* A variant that tests only the falsiness of the field, so that false too
\* becomes true.
NormalizeConnectionToken_Falsy(connectionToken) ==
    IF ~Truthy(connectionToken) THEN Bool(TRUE) ELSE connectionToken

\* The connectionToken given to the host item: a falsy value that is not a
\* boolean becomes true.
NormalizeConnectionToken(connectionToken) ==
    IF ~Truthy(connectionToken) /\ TypeOf(connectionToken) # "boolean"
    THEN Bool(TRUE)
    ELSE connectionToken

\* new PlainHostItem(host.name, host.host, host.port, connectionToken), with
\* the folders added to it.
PlainHostItem(host) ==
    [label           |-> host.name,
     name            |-> host.name,
     host            |-> host.host,
     port            |-> host.port,
     connectionToken |-> NormalizeConnectionToken(host.connectionToken),
     folders         |-> HostFolders(host.name, host.folders)]

\* The KindItem "manual" with its hosts.
KindItem(label, hosts) == [label |-> label, hosts |-> hosts]

\* The part of readTree before its await: the tree and numberOfHosts built
\* from the value of the setting.
BuildTree(value) ==
    IF Truthy(value)
    THEN LET manual == SelectSeq(value.v, LAMBDA h : h.type = HostKind_Manual)
             hosts  == [i \in 1..Len(manual) |-> PlainHostItem(manual[i])]
         IN  [tree |-> IF Len(hosts) > 0 THEN <<KindItem("manual", hosts)>> ELSE <<>>,
              numberOfHosts |-> Len(hosts)]
    ELSE [tree |-> <<>>, numberOfHosts |-> 0]

\* getHostList on the root it got from getChildren(): the hosts of every
\* KindItem, flattened.
HostListOf(root) == Flatten([i \in 1..Len(root) |-> root[i].hosts])

(***************************************************************************)
(* The resolver: RemotesDataProvider.resolveHost / resolveAuthority        *)
(***************************************************************************)

\* new ResolvedAuthority(host, port, connectionToken?)
ResolvedAuthority(host, port, token) ==
    [host |-> host, port |-> port, connectionToken |-> token]

Pending     == [kind |-> "pending"]
Returned(a) == [kind |-> "resolved", authority |-> a]
Thrown(e)   == [kind |-> "error", error |-> e]
NeedsPrompt == [kind |-> "prompt"]

\* A variant that filters nothing and takes the first host there is.
resolveHost_NoFilter(hosts, label) ==
    IF Len(hosts) = 0 THEN [throws |-> TRUE, value |-> Undefined]
    ELSE [throws |-> FALSE, value |-> hosts[1]]

\* A variant that takes the last of the hosts of that label.
resolveHost_Last(hosts, label) ==
    LET found == SelectSeq(hosts, LAMBDA h : StrictEquals(h.label, label)) IN
    IF Len(found) = 0 THEN [throws |-> TRUE, value |-> Undefined]
    ELSE [throws |-> FALSE, value |-> found[Len(found)]]

\* resolveHost(label) on the host list: the first host of that label, or
\* RemoteAuthorityResolverError.NotAvailable thrown.
resolveHost(hosts, label) ==
    LET found == SelectSeq(hosts, LAMBDA h : StrictEquals(h.label, label)) IN
    IF Len(found) = 0 THEN [throws |-> TRUE, value |-> Undefined]
    ELSE [throws |-> FALSE, value |-> found[1]]

\* A variant that asks for the token of a host whose connectionToken is false.
DispatchConfigured_PromptOnFalse(resolvedHost) ==
    IF TypeOf(resolvedHost.connectionToken) = "boolean" THEN NeedsPrompt
    ELSE Returned(ResolvedAuthority(resolvedHost.host, resolvedHost.port,
                                    resolvedHost.connectionToken))

\* A variant that asks for the token whatever the host configures.
DispatchConfigured_AlwaysPrompt(resolvedHost) ==
    IF TypeOf(resolvedHost.connectionToken) = "boolean" /\ ~resolvedHost.connectionToken.v
    THEN Returned(ResolvedAuthority(resolvedHost.host, resolvedHost.port, Undefined))
    ELSE NeedsPrompt

\* resolveAuthority on the host found, up to its prompt: false returns without
\* a token, true goes on to pickToken(), anything else is the token.
DispatchConfigured(resolvedHost) ==
    IF TypeOf(resolvedHost.connectionToken) = "boolean"
    THEN IF ~resolvedHost.connectionToken.v
         THEN Returned(ResolvedAuthority(resolvedHost.host, resolvedHost.port, Undefined))
         ELSE NeedsPrompt
    ELSE Returned(ResolvedAuthority(resolvedHost.host, resolvedHost.port,
                                    resolvedHost.connectionToken))

\* A variant that returns without a token when none was entered, as the
\* transient path does.
AfterPromptConfigured_NoCheck(resolvedHost, token) ==
    IF ~Truthy(token)
    THEN Returned(ResolvedAuthority(resolvedHost.host, resolvedHost.port, Undefined))
    ELSE Returned(ResolvedAuthority(resolvedHost.host, resolvedHost.port, token))

\* resolveAuthority after pickToken() for a configured host.
AfterPromptConfigured(resolvedHost, token) ==
    IF ~Truthy(token) THEN Thrown("no token specified")
    ELSE Returned(ResolvedAuthority(resolvedHost.host, resolvedHost.port, token))

\* A variant that demands a token of a transient host too.
AfterPromptTransient_Required(host, port, token) ==
    IF ~Truthy(token) THEN Thrown("no token specified")
    ELSE Returned(ResolvedAuthority(host, port, token))

\* resolveAuthority after pickToken() for a transient host.
AfterPromptTransient(host, port, token) ==
    IF ~Truthy(token) THEN Returned(ResolvedAuthority(host, port, Undefined))
    ELSE Returned(ResolvedAuthority(host, port, token))

(***************************************************************************)
(* Bounds and input domains                                                *)
(***************************************************************************)

MaxHostLen == 2     \* the longest host name given to the codec
MaxHosts   == 2     \* the longest list of host records in the setting
MaxRes     == 2     \* the resolution requests
MaxChanges == 1     \* the configuration changes

Resolutions == 1..MaxRes

\* The answers of window.showInputBox: undefined when dismissed, else the
\* text entered, which may be empty.
PromptAnswers == <<Undefined, JStr(<<>>), JStr(<<116, 107>>)>>    \* tk

nameA == JStr(<<97>>)
nameB == JStr(<<98>>)
secret == JStr(<<115, 101, 99, 114, 101, 116>>)    \* secret

\* The values of the connectionToken field of a host record.
RawTokens == <<Undefined, Bool(FALSE), Bool(TRUE), JStr(<<>>), secret>>

\* The host record at position i of the setting: its address and port tell
\* the positions apart, and the first record has folders.
RawHost(type, name, token, i) ==
    [type            |-> type,
     name            |-> name,
     host            |-> JStr(<<104, 48 + i>>),
     port            |-> Num(2200 + i),
     connectionToken |-> token,
     folders         |-> IF i = 1
                         THEN Arr(<<JStr(<<47, 120>>),    \* /x
                                    [t |-> "object", name |-> JStr(<<121>>),
                                     path |-> JStr(<<47, 121>>)]>>)    \* /y
                         ELSE Undefined]

\* What a record of the setting may be: a manual host named a or b with any
\* connectionToken, or a record of another kind.
RawShapes ==
    [i \in 1..(2 * Len(RawTokens) + 1) |->
        IF i <= Len(RawTokens) THEN <<HostKind_Manual, nameA, RawTokens[i]>>
        ELSE IF i <= 2 * Len(RawTokens)
            THEN <<HostKind_Manual, nameB, RawTokens[i - Len(RawTokens)]>>
        ELSE <<"other", nameA, secret>>]

ConfigOf(shapes) ==
    Arr([i \in 1..Len(shapes) |->
            RawHost(RawShapes[shapes[i]][1], RawShapes[shapes[i]][2],
                    RawShapes[shapes[i]][3], i)])

\* Every value of the setting with at most MaxHosts records, and no value.
AllConfigs ==
    {Undefined} \cup
    {ConfigOf(sh) : sh \in UNION {[1..k -> 1..Len(RawShapes)] : k \in 0..MaxHosts}}

\* A few values of the setting: none, one host a that asks for its token, and
\* one host b with a token.
CoreConfigs == {Undefined, ConfigOf(<<1>>), ConfigOf(<<10>>)}

refConfigured(name) == HostInfo(JStr(sConfigured), name, Undefined)
refTransient == HostInfo(JStr(sTransient), JStr(<<116, 46, 105, 111>>), Num(22))  \* t.io:22

\* The authorities handed to resolve(): the token of host a, the token of a
\* transient host, the first cut short, and the second without its first
\* character.
Authorities ==
    LET a == encode_remote_host(refConfigured(nameA))
        t == encode_remote_host(refTransient)
    IN  <<a, t, SubSeq(a, 1, Len(a) - 5), SubSeq(t, 2, Len(t))>>

\* The authorities of the registry on its own: the tokens of hosts a and b,
\* and a token of host a that carries a port, which no command encodes.
RegistryAuthorities ==
    <<encode_remote_host(refConfigured(nameA)), encode_remote_host(refConfigured(nameB)),
      encode_remote_host(HostInfo(JStr(sConfigured), nameA, Num(9999)))>>

\* What decode_remote_host makes of each of them.
Decoded == [a \in 1..Len(Authorities) |-> decode_remote_host(Authorities[a])]
RegistryDecoded ==
    [a \in 1..Len(RegistryAuthorities) |-> decode_remote_host(RegistryAuthorities[a])]

(***************************************************************************)
(* The state machine                                                       *)
(***************************************************************************)

\* info: the reference encoded; from: where the token comes from; out: the
\* outcome of decode_remote_host; entry: how resolve() left, or the error
\* message of the command; text: what was entered for a temporary host.
IdleCodec == [pc |-> "idle", info |-> Undefined, from |-> "", token |-> <<>>,
              out |-> [throws |-> FALSE, value |-> Undefined], entry |-> "",
              text |-> Undefined]

IdleRes ==
    [pc           |-> "idle",
     authority    |-> <<>>,
     hostInfo     |-> Undefined,    \* what decode_remote_host returned
     root         |-> <<>>,         \* what getChildren() returned
     resolvedHost |-> Undefined,    \* what resolveHost returned
     answer       |-> Undefined,    \* what pickToken() returned
     prompts      |-> 0,            \* the calls of pickToken()
     lookups      |-> 0,            \* the calls of getHostList()
     outcome      |-> Pending]

\* The state after activate(): nothing is built until the first getChildren.
SystemInit(value) ==
    /\ codec = IdleCodec
    /\ config = value
    /\ remotesTree = Null
    /\ noHosts = Undefined
    /\ fired = 0
    /\ changes = 0
    /\ rebuilds = <<>>
    /\ res = [r \in Resolutions |-> IdleRes]

Init == \E value \in CoreConfigs : SystemInit(value)

\* A call of readTree(), run to its await: the tree is built from the setting
\* as it is now, and setContext is requested.
ReadTreeCall(owner) ==
    LET b == BuildTree(config) IN
    [owner |-> owner, pc |-> "setContext", tree |-> b.tree,
     numberOfHosts |-> b.numberOfHosts]

RemoveAt(q, i) == [j \in 1..(Len(q) - 1) |-> IF j < i THEN q[j] ELSE q[j + 1]]

\* onDidChangeConfiguration: the setting changes, and the handler calls
\* readTree().
ConfigChange(value) ==
    /\ changes < MaxChanges
    /\ value # config
    /\ config' = value
    /\ changes' = changes + 1
    /\ rebuilds' = Append(rebuilds, [ReadTreeCall(0) EXCEPT
                                        !.tree = BuildTree(value).tree,
                                        !.numberOfHosts = BuildTree(value).numberOfHosts])
    /\ UNCHANGED <<codec, remotesTree, noHosts, fired, res>>

\* A variant of it in which onDidChangeTreeData fires as the context is set,
\* before the tree is installed.
SetNoHostsContext_Fires(i) ==
    /\ rebuilds[i].pc = "setContext"
    /\ noHosts' = Bool(rebuilds[i].numberOfHosts = 0)
    /\ fired' = fired + 1
    /\ rebuilds' = [rebuilds EXCEPT ![i].pc = "resume"]
    /\ UNCHANGED <<codec, config, remotesTree, changes, res>>

\* The setContext command of the i-th readTree in flight takes effect.
SetNoHostsContext(i) ==
    /\ rebuilds[i].pc = "setContext"
    /\ noHosts' = Bool(rebuilds[i].numberOfHosts = 0)
    /\ rebuilds' = [rebuilds EXCEPT ![i].pc = "resume"]
    /\ UNCHANGED <<codec, config, remotesTree, fired, changes, res>>

\* The i-th readTree in flight resumes after its await: it installs its tree
\* and fires onDidChangeTreeData; the getChildren that awaited it goes on.
ReadTreeResume(i) ==
    /\ rebuilds[i].pc = "resume"
    /\ remotesTree' = Arr(rebuilds[i].tree)
    /\ fired' = fired + 1
    /\ rebuilds' = RemoveAt(rebuilds, i)
    /\ res' = IF rebuilds[i].owner = 0 THEN res
              ELSE [res EXCEPT ![rebuilds[i].owner].pc = "getChildren"]
    /\ UNCHANGED <<codec, config, noHosts, changes>>

\* A variant of it that takes the port of the reference when it has one.
ResolveConfigured_RefPort(rec, root) ==
    LET found == resolveHost(HostListOf(root), GetProp(rec.hostInfo, kHost))
        port  == GetProp(rec.hostInfo, kPort)
        host  == IF found.throws \/ port = Undefined THEN found.value
                 ELSE [found.value EXCEPT !.port = port]
        next  == DispatchConfigured(host)
        seen  == [rec EXCEPT !.root = root]
    IN  IF found.throws
        THEN [seen EXCEPT !.pc = "done",
                          !.outcome = Thrown("NotAvailable: not configured")]
        ELSE IF next = NeedsPrompt
        THEN [seen EXCEPT !.pc = "prompt", !.resolvedHost = host,
                          !.prompts = @ + 1]
        ELSE [seen EXCEPT !.pc = "done", !.resolvedHost = host,
                          !.outcome = next]

\* resolveAuthority from resolveHost on, given the root that getChildren()
\* returned: getHostList() goes through the root, resolveHost filters it by
\* label, and resolveAuthority returns, throws, or asks for the token. The
\* awaits in between read nothing but that root.
ResolveConfigured(rec, root) ==
    LET found == resolveHost(HostListOf(root), GetProp(rec.hostInfo, kHost))
        next  == DispatchConfigured(found.value)
        seen  == [rec EXCEPT !.root = root]
    IN  IF found.throws
        THEN [seen EXCEPT !.pc = "done",
                          !.outcome = Thrown("NotAvailable: not configured")]
        ELSE IF next = NeedsPrompt
        THEN [seen EXCEPT !.pc = "prompt", !.resolvedHost = found.value,
                          !.prompts = @ + 1]
        ELSE [seen EXCEPT !.pc = "done", !.resolvedHost = found.value,
                          !.outcome = next]

IsTransient(hostInfo) ==
    StrictEquals(GetProp(hostInfo, kType), JStr(sTransient))

\* A variant of resolve() that starts the resolution of whatever was decoded.
ResolveEntry_NoCheck(decoded) ==
    IF decoded.throws THEN "SyntaxError" ELSE "doResolve"

\* How resolve(authority) leaves, decoded being the outcome of
\* decode_remote_host(authority): the parse error is thrown as it is, no host
\* info is NotAvailable('Invalid') thrown, and else doResolve is called.
ResolveEntry(decoded) ==
    IF decoded.throws THEN "SyntaxError"
    ELSE IF ~Truthy(decoded.value) THEN "NotAvailable: Invalid"
    ELSE "doResolve"

\* resolve(authority), decoded being the outcome of
\* decode_remote_host(authority). When doResolve is called, resolveAuthority
\* starts: a transient host asks for the token, any other calls resolveHost,
\* whose getHostList calls getChildren(), which calls readTree() when there
\* is no tree yet and else returns the tree.
Resolve(r, authority, decoded) ==
    /\ res[r].pc = "idle"
    /\ \A q \in Resolutions : q < r => res[q].pc # "idle"
    /\ LET hostInfo == decoded.value
           started  == [res[r] EXCEPT !.authority = authority, !.hostInfo = hostInfo]
       IN  IF ResolveEntry(decoded) # "doResolve" THEN
               /\ res' = [res EXCEPT ![r] = [started EXCEPT
                            !.pc = "done", !.outcome = Thrown(ResolveEntry(decoded))]]
               /\ UNCHANGED rebuilds
           ELSE IF IsTransient(hostInfo) THEN
               /\ res' = [res EXCEPT ![r] = [started EXCEPT
                            !.pc = "prompt", !.prompts = @ + 1]]
               /\ UNCHANGED rebuilds
           ELSE IF ~Truthy(remotesTree) THEN
               /\ res' = [res EXCEPT ![r] = [started EXCEPT
                            !.pc = "readTree", !.lookups = @ + 1]]
               /\ rebuilds' = Append(rebuilds, ReadTreeCall(r))
           ELSE
               /\ res' = [res EXCEPT ![r] =
                            ResolveConfigured([started EXCEPT !.lookups = @ + 1],
                                              remotesTree.v)]
               /\ UNCHANGED rebuilds
    /\ UNCHANGED <<codec, config, remotesTree, noHosts, fired, changes>>

\* getChildren() after its await of readTree(): it returns the tree there is
\* now, and the resolution goes on with it.
GetChildrenResume(r) ==
    /\ res[r].pc = "getChildren"
    /\ res' = [res EXCEPT ![r] =
                ResolveConfigured(@, IF Truthy(remotesTree) THEN remotesTree.v ELSE <<>>)]
    /\ UNCHANGED <<codec, config, remotesTree, noHosts, fired, changes, rebuilds>>

\* A variant of it that looks the host up again, in the tree there is when
\* the prompt returns.
PickToken_Relookup(r, answer) ==
    /\ res[r].pc = "prompt"
    /\ LET found == resolveHost(HostListOf(remotesTree.v), GetProp(res[r].hostInfo, kHost))
       IN  res' = [res EXCEPT ![r] = [@ EXCEPT
                !.pc = "done",
                !.answer = answer,
                !.outcome = IF IsTransient(res[r].hostInfo)
                            THEN AfterPromptTransient(
                                    GetProp(res[r].hostInfo, kHost),
                                    GetProp(res[r].hostInfo, kPort),
                                    answer)
                            ELSE IF found.throws
                            THEN Thrown("NotAvailable: not configured")
                            ELSE AfterPromptConfigured(found.value, answer)]]
    /\ UNCHANGED <<codec, config, remotesTree, noHosts, fired, changes, rebuilds>>

\* A variant of it that asks again when nothing was entered.
PickToken_Retry(r, answer) ==
    /\ res[r].pc = "prompt"
    /\ res' = [res EXCEPT ![r] =
                IF ~Truthy(answer) /\ res[r].prompts < 2
                THEN [@ EXCEPT !.answer = answer, !.prompts = @ + 1]
                ELSE [@ EXCEPT
                        !.pc = "done",
                        !.answer = answer,
                        !.outcome = IF IsTransient(res[r].hostInfo)
                                    THEN AfterPromptTransient(
                                            GetProp(res[r].hostInfo, kHost),
                                            GetProp(res[r].hostInfo, kPort),
                                            answer)
                                    ELSE AfterPromptConfigured(res[r].resolvedHost, answer)]]
    /\ UNCHANGED <<codec, config, remotesTree, noHosts, fired, changes, rebuilds>>

\* pickToken() returns what the user entered, and resolveAuthority ends.
PickToken(r, answer) ==
    /\ res[r].pc = "prompt"
    /\ res' = [res EXCEPT ![r] = [@ EXCEPT
                !.pc = "done",
                !.answer = answer,
                !.outcome = IF IsTransient(res[r].hostInfo)
                            THEN AfterPromptTransient(
                                    GetProp(res[r].hostInfo, kHost),
                                    GetProp(res[r].hostInfo, kPort),
                                    answer)
                            ELSE AfterPromptConfigured(res[r].resolvedHost, answer)]]
    /\ UNCHANGED <<codec, config, remotesTree, noHosts, fired, changes, rebuilds>>

Next ==
    \/ \E value \in CoreConfigs : ConfigChange(value)
    \/ \E i \in 1..Len(rebuilds) : SetNoHostsContext(i)
    \/ \E i \in 1..Len(rebuilds) : ReadTreeResume(i)
    \/ \E r \in Resolutions, a \in 1..Len(Authorities) :
            Resolve(r, Authorities[a], Decoded[a])
    \/ \E r \in Resolutions : GetChildrenResume(r)
    \/ \E r \in Resolutions, a \in 1..Len(PromptAnswers) : PickToken(r, PromptAnswers[a])

Spec == Init /\ [][Next]_vars

(***************************************************************************)
(* The registry on its own: any setting of at most MaxHosts records, which *)
(* does not change, and one resolution of host a or b.                     *)
(***************************************************************************)

RegistryInit == \E value \in AllConfigs : SystemInit(value)

RegistryNext ==
    \/ \E i \in 1..Len(rebuilds) : SetNoHostsContext(i)
    \/ \E i \in 1..Len(rebuilds) : ReadTreeResume(i)
    \/ \E a \in 1..Len(RegistryAuthorities) :
            Resolve(1, RegistryAuthorities[a], RegistryDecoded[a])
    \/ GetChildrenResume(1)
    \/ \E a \in 1..Len(PromptAnswers) : PickToken(1, PromptAnswers[a])

RegistrySpec == RegistryInit /\ [][RegistryNext]_vars

(***************************************************************************)
(* The codec on its own, at the boundary: a reference is encoded, or a     *)
(* token of another origin arrives, and resolve() decodes it.              *)
(***************************************************************************)

\* The characters of the host names: a, the quote, the backslash, e with an
\* acute accent, and the line feed.
HostChars == {97, 34, 92, 233, 10}

CodecHosts == UNION {[1..k -> HostChars] : k \in 0..MaxHostLen}
CodecPorts == {0, 22, 65535}

\* Tokens that no encode_remote_host made: the marker without its +, with
\* another letter case, the marker alone, and the marker with the base64 of
\* null, of {} and of 1.
ForeignTokens ==
    << <<114, 101, 109, 111, 116, 101, 45, 111, 115, 115>>,    \* remote-oss
       <<82, 69, 77, 79, 84, 69, 45, 79, 83, 83, 43, 101, 51, 48, 61>>,    \* REMOTE-OSS+e30=
       Marker,
       Marker \o <<98, 110, 86, 115, 98, 65, 61, 61>>,    \* bnVsbA==
       Marker \o <<101, 51, 48, 61>>,    \* e30=
       Marker \o <<77, 81, 61, 61>> >>    \* MQ==

CodecInit ==
    /\ SystemInit(Undefined)

\* A command encodes a valid reference: a transient one with host and port,
\* or a configured one with a host and no port.
CodecEncode(type, host, port) ==
    /\ codec.pc = "idle"
    /\ LET info == HostInfo(JStr(type), JStr(host),
                            IF type = sTransient THEN Num(port) ELSE Undefined)
       IN  codec' = [codec EXCEPT !.pc = "encoded", !.info = info, !.from = "encode",
                                  !.token = encode_remote_host(info)]
    /\ UNCHANGED <<config, remotesTree, noHosts, fired, changes, rebuilds, res>>

\* A token of another origin arrives.
CodecReceive(token) ==
    /\ codec.pc = "idle"
    /\ codec' = [codec EXCEPT !.pc = "received", !.from = "foreign", !.token = token]
    /\ UNCHANGED <<config, remotesTree, noHosts, fired, changes, rebuilds, res>>

\* What arrives is the first k characters of an encoded token.
CodecCut(k) ==
    /\ codec.pc = "encoded"
    /\ k < Len(codec.token)
    /\ codec' = [codec EXCEPT !.pc = "received", !.from = "cut",
                              !.token = SubSeq(codec.token, 1, k)]
    /\ UNCHANGED <<config, remotesTree, noHosts, fired, changes, rebuilds, res>>

\* What arrives is an encoded token behind another character.
CodecPrepend ==
    /\ codec.pc = "encoded"
    /\ codec' = [codec EXCEPT !.pc = "received", !.from = "prepend",
                              !.token = <<120>> \o codec.token]
    /\ UNCHANGED <<config, remotesTree, noHosts, fired, changes, rebuilds, res>>

\* resolve(authority) decodes the token, and throws or calls doResolve.
CodecDecode ==
    /\ codec.pc \in {"encoded", "received"}
    /\ LET decoded == decode_remote_host(codec.token) IN
       codec' = [codec EXCEPT !.pc = "decoded", !.out = decoded,
                              !.entry = ResolveEntry(decoded)]
    /\ UNCHANGED <<config, remotesTree, noHosts, fired, changes, rebuilds, res>>

\* What showInputBox returns to the command "connect to temporary host":
\* undefined when dismissed, else the text entered.
TemporaryHostInputs ==
    <<Undefined,
      JStr(<<>>),
      JStr(<<101, 120, 97, 109, 112, 108, 101, 46, 99, 111, 109, 58, 50, 50>>),    \* example.com:22
      JStr(<<91, 58, 58, 49, 93, 58, 50, 50, 50, 50>>),    \* [::1]:2222
      JStr(<<98, 97, 100, 45, 105, 110, 112, 117, 116>>),    \* bad-input
      JStr(<<58, 58, 49, 58, 50, 50>>),    \* ::1:22
      JStr(<<91, 93, 58, 50, 50>>),    \* []:22
      JStr(<<91, 97, 93, 58, 50, 50>>),    \* [a]:22
      JStr(<<91, 97, 93, 98, 93, 58, 49>>),    \* [a]b]:1
      JStr(<<104, 58>>),    \* h:
      JStr(<<58, 50, 50>>),    \* :22
      JStr(<<104, 58, 50, 97>>),    \* h:2a
      JStr(<<91, 58, 58, 49, 93, 50, 50, 50, 50>>),    \* [::1]2222
      JStr(<<104, 58, 48, 50, 50>>),    \* h:022
      JStr(<<97, 32, 98, 58, 55>>),    \* a b:7
      JStr(<<104, 58, 50, 50, 32>>) >>    \* h:22 

\* The least index from i on at which string s has character c, or 0.
IndexOf(s, c, i) ==
    LET at == {j \in i..Len(s) : s[j] = c} IN
    IF at = {} THEN 0 ELSE CHOOSE j \in at : \A m \in at : j <= m

\* Whether s[i .. Len(s)] is \d+ up to the end of the string.
DigitsToEnd(s, i) == i <= Len(s) /\ DigitsEnd(s, i) = Len(s) + 1

NoMatch == [matched |-> FALSE, hostname |-> <<>>, port |-> <<>>]

\* The alternative ^\[([^\]]+)\]:(\d+)$ : [^\]]+ runs to the first bracket
\* that closes.
MatchBracketed(s) ==
    LET close == IndexOf(s, 93, 2) IN
    IF Len(s) > 0 /\ s[1] = 91 /\ close > 2 /\ close < Len(s) /\ s[close + 1] = 58
            /\ DigitsToEnd(s, close + 2)
    THEN [matched |-> TRUE, hostname |-> SubSeq(s, 2, close - 1),
          port |-> SubSeq(s, close + 2, Len(s))]
    ELSE NoMatch

\* A variant of the second alternative without its $: the port ends where the
\* digits end.
MatchPlain_Unanchored(s) ==
    LET colon == IndexOf(s, 58, 1) IN
    IF colon > 1 /\ DigitsEnd(s, colon + 1) > colon + 1
    THEN [matched |-> TRUE, hostname |-> SubSeq(s, 1, colon - 1),
          port |-> SubSeq(s, colon + 1, DigitsEnd(s, colon + 1) - 1)]
    ELSE NoMatch

\* The alternative ^([^:]+):(\d+)$ : [^:]+ runs to the first colon.
MatchPlain(s) ==
    LET colon == IndexOf(s, 58, 1) IN
    IF colon > 1 /\ DigitsToEnd(s, colon + 1)
    THEN [matched |-> TRUE, hostname |-> SubSeq(s, 1, colon - 1),
          port |-> SubSeq(s, colon + 1, Len(s))]
    ELSE NoMatch

\* host.match(/^\[([^\]]+)\]:(\d+)$|^([^:]+):(\d+)$/), with match[1] ||
\* match[3] as hostname and match[2] || match[4] as port: the first
\* alternative that matches.
MatchHostPort(s) ==
    IF MatchBracketed(s).matched THEN MatchBracketed(s) ELSE MatchPlain(s)

\* parseInt(port) of a string that begins with digits.
ParseInt(s) == DigitsValue(s, 1, DigitsEnd(s, 1))

\* The command "connect to temporary host", text being what showInputBox
\* returned: no text and a text that does not match show an error message
\* and return; else the transient reference is encoded, and the window of
\* that authority is asked for.
ConnectToTemporaryHost(text) ==
    /\ codec.pc = "idle"
    /\ codec' =
        IF ~Truthy(text)
        THEN [codec EXCEPT !.pc = "rejected", !.from = "temporary", !.text = text,
                           !.entry = "Host should not be empty."]
        ELSE IF ~MatchHostPort(text.v).matched
        THEN [codec EXCEPT !.pc = "rejected", !.from = "temporary", !.text = text,
                           !.entry = "Invalid host format."]
        ELSE LET match == MatchHostPort(text.v)
                 info  == HostInfo(JStr(sTransient), JStr(match.hostname),
                                   Num(ParseInt(match.port)))
             IN  [codec EXCEPT !.pc = "encoded", !.from = "temporary", !.text = text,
                               !.info = info, !.token = encode_remote_host(info)]
    /\ UNCHANGED <<config, remotesTree, noHosts, fired, changes, rebuilds, res>>

CodecNext ==
    \/ \E type \in {sTransient, sConfigured}, host \in CodecHosts, port \in CodecPorts :
            CodecEncode(type, host, port)
    \/ \E j \in 1..Len(ForeignTokens) : CodecReceive(ForeignTokens[j])
    \/ \E k \in 0..Len(codec.token) : CodecCut(k)
    \/ CodecPrepend
    \/ CodecDecode
    \/ \E j \in 1..Len(TemporaryHostInputs) : ConnectToTemporaryHost(TemporaryHostInputs[j])

CodecSpec == CodecInit /\ [][CodecNext]_vars

(***************************************************************************)
(* The rebuild step by step: readTree() taken one iteration of its loops   *)
(* at a time, with the tree view as a second caller of getChildren(). The  *)
(* steps of one rebuild may interleave with everything else, which is more *)
(* than the one thread of the extension host allows. There is one          *)
(* resolution, and the rebuild it starts is taken in one step, as in Spec. *)
(***************************************************************************)

\* The settings of this specification: none, a host a with folders and a
\* host b, and a record of another kind before a host a.
SnapshotConfigs == {Undefined, ConfigOf(<<3, 10>>), ConfigOf(<<11, 2>>)}

\* readTree() entered, up to its loop over the hosts: the tree is empty, and
\* the value of the setting is read. k hosts of the value and f folders of
\* the host after them are done; manual.hosts is the hosts added so far.
ReadTreeBegin(owner, caller, value) ==
    [owner |-> owner, caller |-> caller, pc |-> "hosts", value |-> value,
     k |-> 0, f |-> 0, manual |-> <<>>, tree |-> <<>>, numberOfHosts |-> 0]

\* One iteration of the loop over host.folders.
FolderOf(hostName, folder) ==
    IF TypeOf(folder) = "string" THEN FolderItem(folder, hostName, folder)
    ELSE FolderItem(folder.name, hostName, folder.path)

\* onDidChangeConfiguration, with the readTree() it calls entered only.
ConfigChangeBegin(value) ==
    /\ changes < MaxChanges
    /\ value # config
    /\ config' = value
    /\ changes' = changes + 1
    /\ rebuilds' = Append(rebuilds, ReadTreeBegin(0, "handler", value))
    /\ UNCHANGED <<codec, remotesTree, noHosts, fired, res>>

\* A variant of it that builds the tree of the provider in place: what is
\* built so far is there for every reader.
ReadTreeHost_InPlace(i) ==
    /\ rebuilds[i].pc = "hosts"
    /\ Truthy(rebuilds[i].value)
    /\ rebuilds[i].k < Len(rebuilds[i].value.v)
    /\ LET b    == rebuilds[i]
           host == b.value.v[b.k + 1]
           item == [PlainHostItem(host) EXCEPT !.folders = <<>>]
       IN  IF host.type # HostKind_Manual
           THEN /\ rebuilds' = [rebuilds EXCEPT ![i].k = @ + 1]
                /\ UNCHANGED remotesTree
           ELSE /\ rebuilds' = [rebuilds EXCEPT ![i] = [b EXCEPT
                        !.manual = Append(@, item),
                        !.numberOfHosts = @ + 1,
                        !.k = @ + 1]]
                /\ remotesTree' = Arr(<<KindItem("manual", Append(b.manual, item))>>)
    /\ UNCHANGED <<codec, config, noHosts, fired, changes, res>>

\* One iteration of the loop over the hosts, up to the loop over the folders:
\* a manual host gets its item, which is added to manual and counted.
ReadTreeHost(i) ==
    /\ rebuilds[i].pc = "hosts"
    /\ Truthy(rebuilds[i].value)
    /\ rebuilds[i].k < Len(rebuilds[i].value.v)
    /\ LET b    == rebuilds[i]
           host == b.value.v[b.k + 1]
       IN  rebuilds' = [rebuilds EXCEPT ![i] =
                IF host.type # HostKind_Manual THEN [b EXCEPT !.k = @ + 1]
                ELSE LET added == [b EXCEPT
                            !.manual = Append(@, [PlainHostItem(host) EXCEPT !.folders = <<>>]),
                            !.numberOfHosts = @ + 1]
                     IN  IF Truthy(host.folders) /\ Len(host.folders.v) > 0
                         THEN [added EXCEPT !.pc = "folders", !.f = 0]
                         ELSE [added EXCEPT !.k = @ + 1]]
    /\ UNCHANGED <<codec, config, remotesTree, noHosts, fired, changes, res>>

\* One iteration of the loop over the folders of the host item added last.
ReadTreeFolder(i) ==
    /\ rebuilds[i].pc = "folders"
    /\ LET b        == rebuilds[i]
           folders  == b.value.v[b.k + 1].folders.v
           n        == Len(b.manual)
           hostName == b.manual[n].label
           added    == IF TypeOf(hostName) # "string" THEN b
                       ELSE [b EXCEPT !.manual[n].folders =
                                        Append(@, FolderOf(hostName, folders[b.f + 1]))]
       IN  rebuilds' = [rebuilds EXCEPT ![i] =
                IF b.f + 1 < Len(folders) THEN [added EXCEPT !.f = @ + 1]
                ELSE [added EXCEPT !.pc = "hosts", !.f = 0, !.k = @ + 1]]
    /\ UNCHANGED <<codec, config, remotesTree, noHosts, fired, changes, res>>

\* After the loop: manual is pushed to the tree when it has hosts, and
\* setNoHostsContext is called and awaited.
ReadTreePush(i) ==
    /\ rebuilds[i].pc = "hosts"
    /\ IF Truthy(rebuilds[i].value) THEN rebuilds[i].k = Len(rebuilds[i].value.v) ELSE TRUE
    /\ rebuilds' = [rebuilds EXCEPT ![i] = [@ EXCEPT
            !.pc = "setContext",
            !.tree = IF Len(rebuilds[i].manual) > 0
                     THEN <<KindItem("manual", rebuilds[i].manual)>> ELSE <<>>]]
    /\ UNCHANGED <<codec, config, remotesTree, noHosts, fired, changes, res>>

\* A variant of it that rebuilds an empty tree as well.
ViewGetChildren_WhenEmpty ==
    /\ \A i \in 1..Len(rebuilds) : rebuilds[i].owner = 0 => rebuilds[i].caller # "view"
    /\ rebuilds' = IF ~Truthy(remotesTree) \/ Len(remotesTree.v) = 0
                   THEN Append(rebuilds, ReadTreeBegin(0, "view", config))
                   ELSE rebuilds
    /\ UNCHANGED <<codec, config, remotesTree, noHosts, fired, changes, res>>

\* The tree view asks for the children of the root, when it is shown and
\* after onDidChangeTreeData: getChildren() calls readTree() when there is no
\* tree, and else returns the tree. The view has one request at a time.
ViewGetChildren ==
    /\ \A i \in 1..Len(rebuilds) : rebuilds[i].owner = 0 => rebuilds[i].caller # "view"
    /\ rebuilds' = IF ~Truthy(remotesTree)
                   THEN Append(rebuilds, ReadTreeBegin(0, "view", config))
                   ELSE rebuilds
    /\ UNCHANGED <<codec, config, remotesTree, noHosts, fired, changes, res>>

RebuildInit == \E value \in SnapshotConfigs : SystemInit(value)

RebuildNext ==
    \/ \E value \in SnapshotConfigs : ConfigChangeBegin(value)
    \/ \E i \in 1..Len(rebuilds) : ReadTreeHost(i)
    \/ \E i \in 1..Len(rebuilds) : ReadTreeFolder(i)
    \/ \E i \in 1..Len(rebuilds) : ReadTreePush(i)
    \/ \E i \in 1..Len(rebuilds) : SetNoHostsContext(i)
    \/ \E i \in 1..Len(rebuilds) : ReadTreeResume(i)
    \/ ViewGetChildren
    \/ \E a \in 1..Len(RegistryAuthorities) :
            Resolve(1, RegistryAuthorities[a], RegistryDecoded[a])
    \/ GetChildrenResume(1)
    \/ \E a \in 1..Len(PromptAnswers) : PickToken(1, PromptAnswers[a])

RebuildSpec == RebuildInit /\ [][RebuildNext]_vars

(***************************************************************************)
(* The claims                                                              *)
(***************************************************************************)

\* Whether a token holds the namespace marker "remote-oss+" somewhere.
ContainsMarker(token) == \E i \in 1..Len(token) : HasAt(token, i, Marker)

\* C1: for every valid reference r (transient with host and port, configured
\* with a host and no port), decoding the token encode_remote_host made of r
\* returns, without throwing, a reference with the type, host and port of r.
C1_RoundTrip ==
    (codec.pc = "decoded" /\ codec.from = "encode") =>
        /\ ~codec.out.throws
        /\ codec.out.value.t = "object"
        /\ StrictEquals(GetProp(codec.out.value, kType), GetProp(codec.info, kType))
        /\ StrictEquals(GetProp(codec.out.value, kHost), GetProp(codec.info, kHost))
        /\ StrictEquals(GetProp(codec.out.value, kPort), GetProp(codec.info, kPort))

\* C1's case: a transient reference whose host holds a quote and a character
\* outside ASCII went through encode and decode.
C1_Witness ==
    /\ codec.pc = "decoded" /\ codec.from = "encode"
    /\ GetProp(codec.info, kHost) = JStr(<<34, 233>>)
    /\ GetProp(codec.info, kPort) = Num(65535)
    /\ GetProp(codec.out.value, kHost) = JStr(<<34, 233>>)

\* C9: for every token that does not contain the marker "remote-oss+",
\* decode_remote_host returns undefined and does not throw.
C9_NoMarkerIsNone ==
    (codec.pc = "decoded" /\ ~ContainsMarker(codec.token)) =>
        /\ ~codec.out.throws
        /\ codec.out.value = Undefined

\* C9's case: the marker without its +, which is no marker, was decoded.
C9_Witness ==
    /\ codec.pc = "decoded"
    /\ codec.token = SubSeq(Marker, 1, Len(Marker) - 1)
    /\ ~ContainsMarker(codec.token)
    /\ codec.out.value = Undefined

\* The text JSON.parse is given for a token that holds the marker.
PayloadText(token) == UTF8Decode(Base64Decode(RegExpMatch(token).group))

\* C10: for a token that holds the marker but whose payload is no parsable
\* JSON text, decode_remote_host throws: resolve() leaves with that error,
\* which is neither the NotAvailable('Invalid') of an unrecognised token nor
\* a call of doResolve, so no resolution starts. A token cut anywhere inside
\* its payload is such a token.
C10_MalformedThrows ==
    codec.pc = "decoded" =>
        /\ (ContainsMarker(codec.token) /\ JSONParse(PayloadText(codec.token)).throws) =>
                /\ codec.out.throws
                /\ codec.entry = "SyntaxError"
        /\ (codec.from = "cut" /\ Len(codec.token) >= Len(Marker)
                /\ Len(Base64Decode(RegExpMatch(codec.token).group))
                        < Len(UTF8Encode(JSONStringify(codec.info)))) =>
                /\ codec.out.throws
                /\ codec.entry = "SyntaxError"
        /\ codec.entry = "SyntaxError" <=> codec.out.throws

\* C10's case: a token cut in the middle of its payload was decoded, and
\* resolve() threw the parse error.
C10_Witness ==
    /\ codec.pc = "decoded" /\ codec.from = "cut"
    /\ Len(codec.token) > Len(Marker) + 8
    /\ codec.out.throws
    /\ codec.entry = "SyntaxError"

\* The host named by the reference a resolution decoded.
RefHost(r) == GetProp(res[r].hostInfo, kHost)

\* Whether resolution r is that of a configured reference.
IsConfiguredRes(r) ==
    /\ res[r].pc # "idle"
    /\ ResolveEntry([throws |-> FALSE, value |-> res[r].hostInfo]) = "doResolve"
    /\ res[r].outcome # Thrown("SyntaxError")
    /\ ~IsTransient(res[r].hostInfo)

\* Whether resolution r has looked its host up in the registry.
LookedUp(r) == IsConfiguredRes(r) /\ res[r].pc \in {"prompt", "done"}

\* Whether a sequence of host items holds one of that label.
HasLabel(hosts, label) == \E i \in 1..Len(hosts) : StrictEquals(hosts[i].label, label)

\* The credential policy of a host item, as resolveAuthority tells them apart.
Policy(item) ==
    IF item.connectionToken.t = "boolean"
    THEN IF item.connectionToken.v THEN "AlwaysPrompt" ELSE "NeverPrompt"
    ELSE "FixedToken"

\* Whether resolution r found a host item of that policy.
FoundWith(r, policy) ==
    /\ LookedUp(r)
    /\ res[r].resolvedHost # Undefined
    /\ Policy(res[r].resolvedHost) = policy

\* C2: for every configured reference whose name matches no host of the
\* registry snapshot read at lookup time, the resolution fails with
\* NotAvailable (host not configured): it returns no connection parameters
\* and has asked for no token.
C2_HostNotFound ==
    \A r \in Resolutions :
        (LookedUp(r) /\ ~HasLabel(HostListOf(res[r].root), RefHost(r))) =>
            /\ res[r].pc = "done"
            /\ res[r].outcome = Thrown("NotAvailable: not configured")
            /\ res[r].prompts = 0

\* C2's case: host a was looked up in a registry that holds another host
\* only, and the resolution failed.
C2_Witness ==
    \E r \in Resolutions :
        /\ LookedUp(r)
        /\ Len(HostListOf(res[r].root)) > 0
        /\ ~HasLabel(HostListOf(res[r].root), RefHost(r))
        /\ res[r].outcome = Thrown("NotAvailable: not configured")

\* C3: a resolution that found a host of policy AlwaysPrompt asks for the
\* token, once; when the prompt yields no token (it is dismissed or left
\* empty) the resolution fails with "no token specified", and it returns
\* connection parameters only with a token.
C3_AlwaysPrompt ==
    \A r \in Resolutions :
        FoundWith(r, "AlwaysPrompt") =>
            /\ res[r].prompts = 1
            /\ (res[r].pc = "done" /\ ~Truthy(res[r].answer)) =>
                    res[r].outcome = Thrown("no token specified")
            /\ res[r].outcome.kind = "resolved" =>
                    /\ Truthy(res[r].outcome.authority.connectionToken)
                    /\ res[r].outcome.authority.connectionToken = res[r].answer

\* C3's case: the host found asks for its token, the prompt was dismissed,
\* and the resolution failed.
C3_Witness ==
    \E r \in Resolutions :
        /\ FoundWith(r, "AlwaysPrompt")
        /\ res[r].pc = "done"
        /\ res[r].answer = Undefined
        /\ res[r].outcome = Thrown("no token specified")

\* C4: a resolution that found a host of policy NeverPrompt has returned the
\* address and the port of that host without a token, and has asked for no
\* token.
C4_NeverPrompt ==
    \A r \in Resolutions :
        FoundWith(r, "NeverPrompt") =>
            /\ res[r].pc = "done"
            /\ res[r].outcome = Returned(ResolvedAuthority(res[r].resolvedHost.host,
                                                           res[r].resolvedHost.port,
                                                           Undefined))
            /\ res[r].prompts = 0

\* C4's case: a host with connectionToken false was found and resolved.
C4_Witness ==
    \E r \in Resolutions :
        /\ FoundWith(r, "NeverPrompt")
        /\ res[r].outcome.kind = "resolved"
        /\ res[r].outcome.authority.port = Num(2202)

\* C5: a resolution that found a host of policy FixedToken(t) has returned
\* the address and the port of that host with the token t, and has asked for
\* no token.
C5_FixedToken ==
    \A r \in Resolutions :
        FoundWith(r, "FixedToken") =>
            /\ res[r].pc = "done"
            /\ res[r].outcome = Returned(ResolvedAuthority(res[r].resolvedHost.host,
                                                           res[r].resolvedHost.port,
                                                           res[r].resolvedHost.connectionToken))
            /\ res[r].outcome.authority.connectionToken.t = "string"
            /\ res[r].prompts = 0

\* C5's case: a host with the token "secret" was found and resolved with it.
C5_Witness ==
    \E r \in Resolutions :
        /\ FoundWith(r, "FixedToken")
        /\ res[r].outcome.kind = "resolved"
        /\ res[r].outcome.authority.connectionToken = secret

\* The records of the supported kind in the setting, in their order.
ManualRecords ==
    IF Truthy(config) THEN SelectSeq(config.v, LAMBDA h : h.type = HostKind_Manual)
    ELSE <<>>

\* The hosts of the registry installed, in their order.
RegistryHosts == HostListOf(remotesTree.v)

\* The connectionToken that stands for the policy the claim derives from a
\* raw value: absent and true are AlwaysPrompt (true), false is NeverPrompt
\* (false), a string s is FixedToken(s) (s).
ClaimedToken(raw) == IF raw.t = "undefined" THEN Bool(TRUE) ELSE raw

\* The same, but for the empty string, which is AlwaysPrompt.
DerivedToken(raw) ==
    IF raw.t = "undefined" \/ (raw.t = "string" /\ Len(raw.v) = 0) THEN Bool(TRUE)
    ELSE raw

\* C6 as stated: the policy of each host of the registry is derived from the
\* raw connectionToken as absent -> AlwaysPrompt, false -> NeverPrompt,
\* true -> AlwaysPrompt, every string s, the empty one too, -> FixedToken(s).
C6_Original ==
    Truthy(remotesTree) =>
        /\ Len(RegistryHosts) = Len(ManualRecords)
        /\ \A i \in 1..Len(RegistryHosts) :
            StrictEquals(RegistryHosts[i].connectionToken,
                         ClaimedToken(ManualRecords[i].connectionToken))

\* C6, amended: the same, except that the empty string is taken as no token
\* configured: absent -> AlwaysPrompt, false -> NeverPrompt, true ->
\* AlwaysPrompt, the empty string -> AlwaysPrompt, every other string s ->
\* FixedToken(s).
C6_PolicyDerivation ==
    Truthy(remotesTree) =>
        /\ Len(RegistryHosts) = Len(ManualRecords)
        /\ \A i \in 1..Len(RegistryHosts) :
            /\ StrictEquals(RegistryHosts[i].connectionToken,
                            DerivedToken(ManualRecords[i].connectionToken))
            /\ Policy(RegistryHosts[i]) =
                    CASE ManualRecords[i].connectionToken = Undefined    -> "AlwaysPrompt"
                      [] ManualRecords[i].connectionToken = Bool(FALSE)  -> "NeverPrompt"
                      [] ManualRecords[i].connectionToken = Bool(TRUE)   -> "AlwaysPrompt"
                      [] ManualRecords[i].connectionToken = JStr(<<>>)   -> "AlwaysPrompt"
                      [] OTHER                                           -> "FixedToken"

\* C6's case: the registry was built from a setting with a false, an empty
\* and a non-empty connectionToken among its records.
C6_Witness ==
    /\ Truthy(remotesTree)
    /\ Len(RegistryHosts) = 2
    /\ ManualRecords[1].connectionToken = JStr(<<>>)
    /\ ManualRecords[2].connectionToken = Bool(FALSE)
    /\ RegistryHosts[1].connectionToken = Bool(TRUE)
    /\ RegistryHosts[2].connectionToken = Bool(FALSE)

\* The positions of the records of the supported kind with that name.
RecordsNamed(name) == {i \in 1..Len(ManualRecords) : ManualRecords[i].name = name}

\* Whether a host item has the address, port and policy the rebuild derives
\* from a record.
BuiltFrom(item, record) ==
    /\ item.host = record.host
    /\ item.port = record.port
    /\ StrictEquals(item.connectionToken, DerivedToken(record.connectionToken))

Last(S) == CHOOSE i \in S : \A j \in S : j <= i
First(S) == CHOOSE i \in S : \A j \in S : i <= j

\* C7 as stated: when several records of the supported kind have one name,
\* the registry holds a single host of that name, and resolveHost, and so a
\* resolution of that name, yields the address, port and policy of the last
\* of them.
C7_Original ==
    Truthy(remotesTree) =>
        \A name \in {nameA, nameB} :
            Cardinality(RecordsNamed(name)) > 1 =>
                /\ Cardinality({i \in 1..Len(RegistryHosts) :
                                    RegistryHosts[i].label = name}) = 1
                /\ BuiltFrom(resolveHost(RegistryHosts, name).value,
                             ManualRecords[Last(RecordsNamed(name))])
                /\ \A r \in Resolutions :
                    (LookedUp(r) /\ RefHost(r) = name /\ res[r].resolvedHost # Undefined) =>
                        BuiltFrom(res[r].resolvedHost,
                                  ManualRecords[Last(RecordsNamed(name))])

\* C7, amended: nothing is overwritten. The registry holds one host for each
\* record of the supported kind, in the order of the setting, those of one
\* name too; resolveHost, and so a resolution of that name, yields the
\* address, port and policy of the first record of that name.
C7_FirstWins ==
    Truthy(remotesTree) =>
        /\ Len(RegistryHosts) = Len(ManualRecords)
        /\ \A i \in 1..Len(RegistryHosts) :
            /\ RegistryHosts[i].label = ManualRecords[i].name
            /\ BuiltFrom(RegistryHosts[i], ManualRecords[i])
        /\ \A name \in {nameA, nameB} :
            RecordsNamed(name) # {} =>
                /\ ~resolveHost(RegistryHosts, name).throws
                /\ BuiltFrom(resolveHost(RegistryHosts, name).value,
                             ManualRecords[First(RecordsNamed(name))])
                /\ \A r \in Resolutions :
                    (LookedUp(r) /\ RefHost(r) = name) =>
                        /\ res[r].resolvedHost # Undefined
                        /\ BuiltFrom(res[r].resolvedHost,
                                     ManualRecords[First(RecordsNamed(name))])
                        /\ res[r].outcome.kind = "resolved" =>
                            /\ res[r].outcome.authority.host =
                                    ManualRecords[First(RecordsNamed(name))].host
                            /\ res[r].outcome.authority.port =
                                    ManualRecords[First(RecordsNamed(name))].port

\* C7's case: two records are named a, the first with a token and the second
\* without prompt; the registry holds both, and the resolution of a has
\* returned the address and the token of the first.
C7_Witness ==
    /\ Truthy(remotesTree)
    /\ RecordsNamed(nameA) = {1, 2}
    /\ Len(RegistryHosts) = 2
    /\ \E r \in Resolutions :
        /\ LookedUp(r) /\ RefHost(r) = nameA
        /\ res[r].outcome.kind = "resolved"
        /\ res[r].outcome.authority.host = ManualRecords[1].host
        /\ res[r].outcome.authority.host # ManualRecords[2].host
        /\ res[r].outcome.authority.connectionToken = secret
        /\ ManualRecords[2].connectionToken = Bool(FALSE)

\* C8: the resolution of a transient reference asks for the token, once,
\* without a lookup in the registry, and never fails: whatever the prompt
\* returns, it returns the host and the port of the reference, with the
\* token entered when one was entered and without a token when the prompt
\* was dismissed or left empty.
C8_TransientNeverFails ==
    \A r \in Resolutions :
        (res[r].pc # "idle" /\ IsTransient(res[r].hostInfo)) =>
            /\ res[r].pc \in {"prompt", "done"}
            /\ res[r].prompts = 1
            /\ res[r].lookups = 0
            /\ res[r].root = <<>>
            /\ \A i \in 1..Len(rebuilds) : rebuilds[i].owner # r
            /\ res[r].pc = "done" =>
                /\ res[r].outcome.kind = "resolved"
                /\ res[r].outcome.authority.host = RefHost(r)
                /\ res[r].outcome.authority.port = GetProp(res[r].hostInfo, kPort)
                /\ res[r].outcome.authority.connectionToken =
                        IF Truthy(res[r].answer) THEN res[r].answer ELSE Undefined

\* C8's case: a transient resolution whose prompt was dismissed has returned
\* the host and port of the reference without a token, with no registry
\* built at all.
C8_Witness ==
    \E r \in Resolutions :
        /\ res[r].pc = "done" /\ IsTransient(res[r].hostInfo)
        /\ res[r].answer = Undefined
        /\ res[r].outcome = Returned(ResolvedAuthority(JStr(<<116, 46, 105, 111>>),
                                                       Num(22), Undefined))
        /\ remotesTree = Null

\* Whether a rebuild in flight is through its loops, and awaits setContext or
\* its resumption.
Built(b) == b.pc \in {"setContext", "resume"}

\* Whether a rebuild in flight, if it was taken step by step, has the tree
\* and the count that readTree() builds from the value it read.
BuiltWhole(b) ==
    "value" \in DOMAIN b =>
        /\ b.tree = BuildTree(b.value).tree
        /\ b.numberOfHosts = BuildTree(b.value).numberOfHosts

\* Whether a tree is the whole tree of one of the settings.
WholeSnapshot(tree) == \E c \in SnapshotConfigs : tree = BuildTree(c).tree

\* C11: however the steps of the rebuilds interleave with the lookups of a
\* resolution, the tree of the provider is replaced only by the whole tree of
\* a rebuild that is through its loops, in one step; a lookup returns the
\* tree installed at that moment, as it is; so the tree of the provider and
\* the tree a lookup has read are always the whole tree of a setting, never
\* a tree with part of its hosts or folders.
C11_AtomicSnapshot ==
    /\ [](/\ \A i \in 1..Len(rebuilds) : Built(rebuilds[i]) => BuiltWhole(rebuilds[i])
          /\ Truthy(remotesTree) => WholeSnapshot(remotesTree.v)
          /\ \A r \in Resolutions : LookedUp(r) => WholeSnapshot(res[r].root))
    /\ [][/\ remotesTree' # remotesTree =>
                \E i \in 1..Len(rebuilds) :
                    /\ rebuilds[i].pc = "resume"
                    /\ BuiltWhole(rebuilds[i])
                    /\ remotesTree' = Arr(rebuilds[i].tree)
          /\ \A r \in Resolutions :
                (~LookedUp(r) /\ LookedUp(r)') =>
                    /\ Truthy(remotesTree)
                    /\ res'[r].root = remotesTree.v
                    /\ remotesTree' = remotesTree]_vars

\* C11's case: a lookup has read the tree with its one host, whole, while a
\* rebuild from a setting with two hosts has added the first host and not
\* yet its folders.
C11_Witness ==
    \E r \in Resolutions, i \in 1..Len(rebuilds) :
        /\ LookedUp(r)
        /\ Len(HostListOf(res[r].root)) = 1
        /\ remotesTree = Arr(res[r].root)
        /\ rebuilds[i].pc = "folders"
        /\ Len(rebuilds[i].value.v) = 2
        /\ Len(rebuilds[i].manual) = 1
        /\ rebuilds[i].manual[1].folders = <<>>

\* The hosts of the registry, as listHosts() gives them.
ListHosts == HostListOf(remotesTree.v)

\* C12: whenever no rebuild is in flight and the registry is built, the
\* context remote-oss:noHosts is true if and only if the registry has no
\* hosts, after rebuilds that overlapped at their awaits too.
C12_NoHostsSignal ==
    (rebuilds = <<>> /\ remotesTree # Null) =>
        /\ noHosts \in {Bool(TRUE), Bool(FALSE)}
        /\ noHosts = Bool(Len(ListHosts) = 0)

\* C13: onDidChangeTreeData fires once for each rebuild, in the step in which
\* that rebuild, through its loops and its await, installs its tree and
\* ends; it fires in no other step, so never while a rebuild adds hosts or
\* awaits, and never before the new tree is there.
C13_NotifyOncePerRebuild ==
    [][/\ fired' # fired =>
            /\ fired' = fired + 1
            /\ \E i \in 1..Len(rebuilds) :
                /\ rebuilds[i].pc = "resume"
                /\ rebuilds' = RemoveAt(rebuilds, i)
                /\ remotesTree' = Arr(rebuilds[i].tree)
       /\ Len(rebuilds') < Len(rebuilds) =>
            /\ Len(rebuilds') = Len(rebuilds) - 1
            /\ fired' = fired + 1]_vars

\* C13's case: one rebuild has ended and onDidChangeTreeData has fired once,
\* while the next rebuild has added a host and is at its folders.
C13_Witness ==
    /\ fired = 1
    /\ Truthy(remotesTree)
    /\ Len(rebuilds) = 1
    /\ rebuilds[1].pc = "folders"

\* C14: every resolution of a configured reference that has returned has
\* returned the address and the port of the host it found by its name in
\* the registry it read, whatever port the reference carries.
C14_PortFromRegistry ==
    \A r \in Resolutions :
        (LookedUp(r) /\ res[r].outcome.kind = "resolved") =>
            /\ \E i \in 1..Len(HostListOf(res[r].root)) :
                /\ HostListOf(res[r].root)[i] = res[r].resolvedHost
                /\ StrictEquals(res[r].resolvedHost.label, RefHost(r))
            /\ res[r].outcome.authority.host = res[r].resolvedHost.host
            /\ res[r].outcome.authority.port = res[r].resolvedHost.port
            /\ \E i \in 1..Len(ManualRecords) :
                /\ ManualRecords[i].host = res[r].outcome.authority.host
                /\ ManualRecords[i].port = res[r].outcome.authority.port

\* C14's case: a reference to host a that carries the port 9999 has been
\* resolved to the address and the port 2201 of the host in the registry.
C14_Witness ==
    \E r \in Resolutions :
        /\ LookedUp(r)
        /\ GetProp(res[r].hostInfo, kPort) = Num(9999)
        /\ res[r].outcome.kind = "resolved"
        /\ res[r].outcome.authority.host = JStr(<<104, 49>>)    \* h1
        /\ res[r].outcome.authority.port = Num(2201)

\* The prompts of resolution r that are open: pickToken() called and not yet
\* returned.
OpenPrompts(r) == IF res[r].pc = "prompt" THEN 1 ELSE 0

\* C15: each resolution calls pickToken() at most once and getHostList() at
\* most once, and has at most one prompt open. The step in which its prompt
\* returns ends it, with a failure or a result when nothing was entered; the
\* step in which its lookup finds no host ends it with NotAvailable and
\* without a prompt; and a resolution that has ended does nothing more,
\* whatever the other resolutions do.
C15_OnePromptNoRetry ==
    /\ [](\A r \in Resolutions :
            /\ res[r].prompts \in {0, 1}
            /\ res[r].lookups \in {0, 1}
            /\ OpenPrompts(r) <= res[r].prompts
            /\ res[r].pc = "done" <=> res[r].outcome # Pending)
    /\ [][\A r \in Resolutions :
            /\ res[r].pc = "done" => res'[r] = res[r]
            /\ (res[r].pc = "prompt" /\ res'[r] # res[r]) =>
                    /\ res'[r].pc = "done"
                    /\ res'[r].prompts = 1
                    /\ res'[r].lookups = res[r].lookups
                    /\ ~Truthy(res'[r].answer) =>
                            res'[r].outcome \in
                                {Thrown("no token specified"),
                                 Returned(ResolvedAuthority(RefHost(r),
                                            GetProp(res[r].hostInfo, kPort), Undefined))}
            /\ (res[r].pc # "done"
                    /\ res'[r].outcome = Thrown("NotAvailable: not configured")) =>
                    /\ res'[r].pc = "done"
                    /\ res'[r].prompts = 0
                    /\ res'[r].lookups = 1]_vars

\* C15's case: a resolution has failed for want of a token after its one
\* prompt, which was dismissed, and another has its prompt open.
C15_Witness ==
    \E r, q \in Resolutions :
        /\ res[r].pc = "done"
        /\ res[r].prompts = 1
        /\ res[r].answer = Undefined
        /\ res[r].outcome = Thrown("no token specified")
        /\ res[q].pc = "prompt"
        /\ res[q].prompts = 1

\* The texts of the examples.
textHostPort ==
    JStr(<<101, 120, 97, 109, 112, 108, 101, 46, 99, 111, 109, 58, 50, 50>>)    \* example.com:22
textBracketed == JStr(<<91, 58, 58, 49, 93, 58, 50, 50, 50, 50>>)    \* [::1]:2222
textBad == JStr(<<98, 97, 100, 45, 105, 110, 112, 117, 116>>)    \* bad-input
hostExample == JStr(<<101, 120, 97, 109, 112, 108, 101, 46, 99, 111, 109>>)    \* example.com
hostLoopback == JStr(<<58, 58, 49>>)    \* ::1

AllDigits(p) == Len(p) > 0 /\ \A i \in 1..Len(p) : IsDigit(p[i])
Lacks(h, c)  == \A i \in 1..Len(h) : h[i] # c

\* The readings of a text as [ipv6-literal]:port, as pairs of host and port:
\* a bracket, a literal of one character or more without a closing bracket,
\* the closing bracket, a colon, and digits to the end.
BracketedForms(s) ==
    {<<SubSeq(s, 2, k - 2), SubSeq(s, k + 1, Len(s))>> :
        k \in {k \in 4..Len(s) :
                /\ s[1] = 91 /\ s[k - 1] = 93 /\ s[k] = 58
                /\ Lacks(SubSeq(s, 2, k - 2), 93)
                /\ AllDigits(SubSeq(s, k + 1, Len(s)))}}

\* The readings of a text as hostname:port: a name of one character or more
\* without a colon, a colon, and digits to the end.
PlainForms(s) ==
    {<<SubSeq(s, 1, k - 1), SubSeq(s, k + 1, Len(s))>> :
        k \in {k \in 2..Len(s) :
                /\ s[k] = 58
                /\ Lacks(SubSeq(s, 1, k - 1), 58)
                /\ AllDigits(SubSeq(s, k + 1, Len(s)))}}

\* The readings of what was entered, the bracketed one first.
HostPortForms(text) ==
    IF ~Truthy(text) THEN {}
    ELSE IF BracketedForms(text.v) # {} THEN BracketedForms(text.v)
    ELSE PlainForms(text.v)

\* C16: the command for a temporary host encodes a transient reference and
\* asks for the connection if and only if the text entered reads as
\* hostname:port or [ipv6-literal]:port; the reference then has the host and
\* the port read ("example.com:22" gives example.com and 22, "[::1]:2222"
\* gives ::1 and 2222), and resolve() decodes them from the authority. For no
\* text, an empty text and any other text ("bad-input") it shows an error,
\* encodes nothing, asks for no connection, and nothing is resolved after.
C16_TemporaryHostParse ==
    /\ [](codec.from = "temporary" =>
            /\ codec.pc \in {"rejected", "encoded", "decoded"}
            /\ codec.pc # "rejected" <=> HostPortForms(codec.text) # {}
            /\ codec.pc = "rejected" =>
                    /\ codec.info = Undefined
                    /\ codec.token = <<>>
                    /\ codec.out = IdleCodec.out
                    /\ codec.entry \in {"Host should not be empty.", "Invalid host format."}
            /\ codec.pc # "rejected" =>
                    /\ \E f \in HostPortForms(codec.text) :
                            codec.info = HostInfo(JStr(sTransient), JStr(f[1]),
                                                  Num(ParseInt(f[2])))
                    /\ codec.token = encode_remote_host(codec.info)
            /\ codec.pc = "decoded" =>
                    /\ ~codec.out.throws
                    /\ codec.entry = "doResolve"
                    /\ IsTransient(codec.out.value)
                    /\ GetProp(codec.out.value, kHost) = GetProp(codec.info, kHost)
                    /\ GetProp(codec.out.value, kPort) = GetProp(codec.info, kPort)
            /\ codec.text = textHostPort =>    \* example.com:22
                    /\ GetProp(codec.info, kHost) = hostExample    \* example.com
                    /\ GetProp(codec.info, kPort) = Num(22)
            /\ codec.text = textBracketed =>    \* [::1]:2222
                    /\ GetProp(codec.info, kHost) = hostLoopback    \* ::1
                    /\ GetProp(codec.info, kPort) = Num(2222)
            /\ codec.text = textBad =>    \* bad-input
                    codec.pc = "rejected")
    /\ [][codec.pc = "rejected" => codec' = codec]_vars

\* C16's case: "[::1]:2222" was entered, and resolve() has decoded the
\* authority to the transient host ::1 with the port 2222.
C16_Witness ==
    /\ codec.from = "temporary"
    /\ codec.pc = "decoded"
    /\ codec.text = textBracketed    \* [::1]:2222
    /\ codec.out.value = HostInfo(JStr(sTransient), hostLoopback, Num(2222))

\* C17: after a change of the setting, once no rebuild is in flight, the
\* registry and the context remote-oss:noHosts are those that readTree()
\* derives from the setting as it is now.
C17_LatestConfigWins ==
    (changes > 0 /\ rebuilds = <<>>) =>
        /\ remotesTree = Arr(BuildTree(config).tree)
        /\ noHosts = Bool(BuildTree(config).numberOfHosts = 0)

\* Whether resolution r is at the prompt for the token of a host it found.
AtConfiguredPrompt(r) == LookedUp(r) /\ res[r].pc = "prompt"

\* C18: a resolution at the prompt for the token of a configured host keeps
\* the host item it found and the tree it read, and looks nothing up again,
\* whatever is installed in the registry meanwhile; when the prompt returns a
\* token, it returns the address and the port of that host item with that
\* token. So the address, the port and the policy of a result are those of
\* one host of the one tree the resolution read.
C18_EntryKeptOverPrompt ==
    /\ [](\A r \in Resolutions :
            (LookedUp(r) /\ res[r].prompts = 1) =>
                /\ \E i \in 1..Len(HostListOf(res[r].root)) :
                        HostListOf(res[r].root)[i] = res[r].resolvedHost
                /\ res[r].resolvedHost.connectionToken = Bool(TRUE)
                /\ res[r].lookups = 1
                /\ res[r].outcome.kind = "resolved" =>
                        res[r].outcome.authority =
                            ResolvedAuthority(res[r].resolvedHost.host,
                                              res[r].resolvedHost.port, res[r].answer))
    /\ [][\A r \in Resolutions :
            AtConfiguredPrompt(r) =>
                /\ res'[r].resolvedHost = res[r].resolvedHost
                /\ res'[r].root = res[r].root
                /\ res'[r].lookups = res[r].lookups
                /\ (res'[r].pc = "done" /\ Truthy(res'[r].answer)) =>
                        res'[r].outcome =
                            Returned(ResolvedAuthority(res[r].resolvedHost.host,
                                                       res[r].resolvedHost.port,
                                                       res'[r].answer))]_vars

\* C18's case: a resolution has returned the address and the port of host a
\* with the token entered at its prompt, and the registry, rebuilt since the
\* resolution read it, holds no host a.
C18_Witness ==
    \E r \in Resolutions :
        /\ LookedUp(r)
        /\ res[r].prompts = 1
        /\ res[r].outcome =
                Returned(ResolvedAuthority(JStr(<<104, 49>>), Num(2201),    \* h1
                                           PromptAnswers[3]))
        /\ Truthy(remotesTree)
        /\ remotesTree.v # res[r].root
        /\ ~HasLabel(ListHosts, RefHost(r))

\* C19: a lookup made while the registry is unbuilt calls readTree() and
\* awaits it, and goes on only when there is a tree, so every lookup reads a
\* tree that was installed, whole. A readTree() is started only by a change
\* of the setting or by a getChildren() that found no tree: once a tree is
\* installed there is a tree for good, and no lookup, no request of the tree
\* view and no firing of onDidChangeTreeData starts a rebuild, also when the
\* tree installed is empty.
C19_LazyRebuild ==
    /\ [](/\ fired > 0 => remotesTree # Null
          /\ \A r \in Resolutions : res[r].pc = "getChildren" => remotesTree # Null)
    /\ [][/\ remotesTree # Null => remotesTree' # Null
          /\ Len(rebuilds') > Len(rebuilds) =>
                /\ Len(rebuilds') = Len(rebuilds) + 1
                /\ changes' = changes + 1 \/ remotesTree = Null
          /\ fired' # fired => Len(rebuilds') < Len(rebuilds)
          /\ \A r \in Resolutions :
                /\ (res[r].pc = "idle" /\ IsConfiguredRes(r)') =>
                        IF remotesTree = Null
                        THEN /\ res'[r].pc = "readTree"
                             /\ rebuilds' = Append(rebuilds, rebuilds'[Len(rebuilds')])
                             /\ rebuilds'[Len(rebuilds')].owner = r
                        ELSE /\ LookedUp(r)'
                             /\ rebuilds' = rebuilds
                /\ (~LookedUp(r) /\ LookedUp(r)') =>
                        /\ remotesTree # Null
                        /\ res'[r].root = remotesTree.v
                        /\ res'[r].lookups = 1]_vars

\* C19's case: the one rebuild there was is that of a change to a setting
\* without hosts; the resolution made its lookup in the empty tree it left,
\* found no host, and started no rebuild.
C19_Witness ==
    /\ changes = 1
    /\ fired = 1
    /\ rebuilds = <<>>
    /\ remotesTree = Arr(<<>>)
    /\ \E r \in Resolutions :
        /\ LookedUp(r)
        /\ res[r].root = <<>>
        /\ res[r].outcome = Thrown("NotAvailable: not configured")

====
